---- MODULE Spec2Model ----
(***************************************************************************)
(* Model of the mergemock execution engine.  EngineBackend: the           *)
(* payload-ID counter, the LRU cache of prepared payloads and the three    *)
(* Engine API handlers GetPayloadV1, NewPayloadV1 and ForkchoiceUpdatedV1, *)
(* run by concurrently scheduled request workers.  EngineCmd: startup      *)
(* (Run, loadJwtSecret), the two authenticated listeners, RunNode and      *)
(* Close.                                                                  *)
(***************************************************************************)
EXTENDS Integers, Sequences, FiniteSets, TLC

(***************************************************************************)
(* Bounds of the model.                                                    *)
(***************************************************************************)
\* prepare calls (ForkchoiceUpdatedV1 with attributes) in Spec
MaxCalls == 2
\* prepare calls in SpecChain
MaxCallsChain == 1
\* prepare calls in SpecLRU, enough to overfill the cache
MaxCallsLRU == 11
\* prepare calls in SpecNode
MaxCallsNode == 1
\* characters of a secret file in SpecJwt: the 64 of a 32-byte secret and two more
MaxJwtLen == 66

\* request workers (goroutines serving requests)
Workers == {1, 2}

\* timestamps a caller puts into PayloadAttributesV1
Timestamps == {1, 2}

\* difficulty of the genesis header, and of the headers executed later
GenesisDifficulties == {2}
Difficulties == {0, 1}
\* values of gspec.Config.TerminalTotalDifficulty
TTDs == {2, 3}

(***************************************************************************)
(* Program constants.                                                      *)
(***************************************************************************)
\* lru.New(10)
CacheSize == 10
\* len(jwt) != 32
SecretLen == 32

(***************************************************************************)
(* Optional values (Go pointers that may be nil).                          *)
(***************************************************************************)
Nil == <<>>
Some(x) == <<x>>

(***************************************************************************)
(* Hashes.  A header hash is an injective function of the header content;  *)
(* GenesisHash is the hash of the genesis header and UnknownHash a hash    *)
(* no header of the chain has.                                             *)
(***************************************************************************)
UnknownHash == 0
HashBase == 1 + Cardinality(Timestamps)
GenesisHash == HashBase

ComputeHash(parentHash, timestamp) == parentHash * HashBase + timestamp

\* ExecutionPayloadV1.ValidateHash: declared hash against the computed one
ValidateHash(payload) ==
    payload.BlockHash = ComputeHash(payload.ParentHash, payload.Timestamp)

(***************************************************************************)
(* PayloadID: 8 bytes, written big-endian from the counter value.          *)
(***************************************************************************)
\* 256^n for the byte positions whose weight a counter value below 2^31 reaches
Pow256(n) == IF n = 0 THEN 1
             ELSE IF n = 1 THEN 256
             ELSE IF n = 2 THEN 65536
             ELSE 16777216

\* byte of weight 256^n of v; v stays below 2^31 (the counter is bounded by
\* MaxCalls and MaxCallsLRU), so the bytes of weight 256^4 and more are zero
ByteOf(v, n) == IF n > 3 THEN 0 ELSE (v \div Pow256(n)) % 256

AddUint64NoStore(counter, delta) == counter

\* atomic.AddUint64(&e.payloadIdCounter, 1): the new value (the counter stays
\* far below 2^64, where the addition would wrap)
AddUint64(counter, delta) == counter + delta

LittleEndianPutUint64(v) == [i \in 1..8 |-> ByteOf(v, i - 1)]

\* binary.BigEndian.PutUint64(id[:], idU64)
BigEndianPutUint64(v) == [i \in 1..8 |-> ByteOf(v, 8 - i)]

\* a < b as unsigned big-endian integers: the first byte that differs decides
BigEndianLess(a, b) ==
    \E i \in 1..8 : a[i] < b[i] /\ \A j \in 1..(i - 1) : a[j] = b[j]

(***************************************************************************)
(* The LRU cache (hashicorp/golang-lru): a list of entries, most recently  *)
(* used first.                                                             *)
(***************************************************************************)
Keys(cache) == {cache[i].key : i \in 1..Len(cache)}

IndexOf(cache, key) == CHOOSE i \in 1..Len(cache) : cache[i].key = key

Without(cache, i) == SubSeq(cache, 1, i - 1) \o SubSeq(cache, i + 1, Len(cache))

\* Cache.Add: insert or replace at the front, then drop the oldest entry
\* when the list has grown past the size
LruAddNoEvict(cache, key, value) ==
    IF key \in Keys(cache)
    THEN <<[key |-> key, value |-> value]>> \o Without(cache, IndexOf(cache, key))
    ELSE <<[key |-> key, value |-> value]>> \o cache

LruAdd(cache, key, value) ==
    IF key \in Keys(cache)
    THEN <<[key |-> key, value |-> value]>> \o Without(cache, IndexOf(cache, key))
    ELSE LET grown == <<[key |-> key, value |-> value]>> \o cache
         IN  IF Len(grown) > CacheSize THEN SubSeq(grown, 1, CacheSize) ELSE grown

\* Cache.Get: the cache after the lookup (a hit moves the entry to the front)
LruGetNoTouch(cache, key) == cache

LruGetRemoves(cache, key) ==
    IF key \in Keys(cache) THEN Without(cache, IndexOf(cache, key)) ELSE cache

LruGet(cache, key) ==
    IF key \in Keys(cache)
    THEN <<cache[IndexOf(cache, key)]>> \o Without(cache, IndexOf(cache, key))
    ELSE cache

\* Cache.Get: the value found
LruValue(cache, key) == cache[IndexOf(cache, key)].value

(***************************************************************************)
(* Statuses and errors.                                                    *)
(***************************************************************************)
ExecutionValid == "VALID"
ExecutionSyncing == "SYNCING"
ExecutionInvalidBlockHash == "INVALID_BLOCK_HASH"
ExecutionInvalidTerminalBlock == "INVALID_TERMINAL_BLOCK"

NoError == "nil"
UnavailablePayload == "UnavailablePayload"
ChainError == "chain error"

(***************************************************************************)
(* The secret file.  A character is the value 0..15 of the hex digit it    *)
(* writes, or NonHexChar for every other character (a newline, a space,    *)
(* 'x', ...).                                                              *)
(***************************************************************************)
NonHexChar == 16

\* hex.reverseHexTable: the digit value, or 255 for a character that is no digit
FromHexChar(c) == IF c < NonHexChar THEN c ELSE 255

\* hex.Decode: the number of pairs of hex digits before the first character
\* that is no hex digit
DecodedLen(src) ==
    LET whole == {n \in 0..(Len(src) \div 2) :
                     \A j \in 1..(2 * n) : FromHexChar(src[j]) <= 15}
    IN  CHOOSE n \in whole : \A m \in whole : m <= n

\* hex.DecodeString: the bytes decoded before the first malformed pair; a
\* trailing single character is dropped (the error is returned beside them)
HexDecodeString(src) ==
    [i \in 1..DecodedLen(src) |->
        FromHexChar(src[2 * i - 1]) * 16 + FromHexChar(src[2 * i])]

\* common.Hex2Bytes: h, _ := hex.DecodeString(str); return h
Hex2Bytes(str) == HexDecodeString(str)

ReadError == "read error"
InvalidLength == "invalid length, expected 32-byte value"

\* ioutil.ReadFile
ReadFile(file) ==
    IF file.exists THEN [raw |-> file.content, err |-> NoError]
    ELSE [raw |-> <<>>, err |-> ReadError]

loadJwtSecret(file) ==
    LET rd == ReadFile(file)
        jwt == Hex2Bytes(rd.raw)
    IN  IF rd.err # NoError THEN [jwt |-> <<>>, err |-> rd.err]
        ELSE IF Len(jwt) # SecretLen THEN [jwt |-> <<>>, err |-> InvalidLength]
        ELSE [jwt |-> jwt, err |-> NoError]

\* n hex digits
HexRun(n) == [i \in 1..n |-> i % 16]

MissingFile == [exists |-> FALSE, content |-> <<>>]
FileOf(content) == [exists |-> TRUE, content |-> content]

\* a file holding the hex encoding of a 32-byte secret and nothing else
ValidJwtFile == FileOf(HexRun(2 * SecretLen))

(***************************************************************************)
(* Requests: the listener and path a client connects to, and the token it  *)
(* presents.  A token is written as the secret it was signed with.         *)
(***************************************************************************)
Servers == {"srv", "wsSrv"}
Paths == {"/", "/ws"}

NoToken == <<>>
WrongSecret == [i \in 1..SecretLen |-> 0]

NoConn == [listener |-> "none", path |-> "none", token |-> NoToken]

\* mux and wsMux: "/ws" on the HTTP server answers 400, every other route
\* leads to the RPC handler stack
Route(c) == IF c.listener = "srv" /\ c.path = "/ws" THEN "wrong port" ELSE "rpc"

(***************************************************************************)
(* State.                                                                  *)
(***************************************************************************)
VARIABLES
    payloadIdCounter,   \* EngineBackend.payloadIdCounter
    recentPayloads,     \* EngineBackend.recentPayloads
    chain,              \* mockChain.chain: header hash -> header
    ttd,                \* mockChain.gspec.Config.TerminalTotalDifficulty
    pc,                 \* position of each worker in its handler
    req,                \* the request a worker serves
    loc,                \* the handler's local variables (id, payload)
    resp,               \* the handler's return values
    issued,             \* history: id, head and timestamp of every prepare call
    stored,             \* history: ids whose payload was put into the cache
    returned,           \* history: ids returned by successful prepare calls
    evicted,            \* history: ids dropped from the cache
    useLog              \* history: ids by their last use, least recent first

VARIABLES
    runPc,              \* position of Run
    jwtFile,            \* the file at c.JwtSecretPath
    jwtSecret,          \* c.jwtSecret
    close,              \* c.close: "nil" or "chan" (unbuffered)
    runNodePc,          \* position of the RunNode goroutine
    rpcSrv,             \* c.rpcSrv: "nil", "running" or "stopped"
    listener,           \* c.srv, c.wsSrv: state of the ListenAndServe goroutine
    inShutdown,         \* c.srv, c.wsSrv: Close was called
    closePc,            \* position of each caller of Close
    conn,               \* the connection each worker serves
    startup             \* history: the startup steps completed, in order

vars == <<payloadIdCounter, recentPayloads, chain, ttd, pc, req, loc, resp,
          issued, stored, returned, evicted, useLog,
          runPc, jwtFile, jwtSecret, close, runNodePc, rpcSrv, listener,
          inShutdown, closePc, conn, startup>>

node == <<runPc, jwtFile, jwtSecret, close, runNodePc, rpcSrv, listener,
          inShutdown, closePc, conn, startup>>

backend == <<payloadIdCounter, recentPayloads, chain, ttd>>
history == <<issued, stored, returned, evicted, useLog>>

NoReq == [op |-> "none", head |-> UnknownHash, attrs |-> Nil, id |-> Nil, payload |-> Nil]
NoLoc == [id |-> Nil, payload |-> Nil]
NoResp == [Status |-> "none", LatestValidHash |-> Nil, PayloadID |-> Nil,
           Payload |-> Nil, Err |-> NoError]

Header(parentHash, difficulty) == [ParentHash |-> parentHash, Difficulty |-> difficulty]

Closers == {1, 2}

StartupSteps == <<"initLogger", "loadJwtSecret", "makeMockChain", "NewEngineBackend",
                  "startRPC">>

StackSecretHttpOnly(l) == IF l = "srv" THEN jwtSecret ELSE <<>>

\* the bearer-token check of the handler stack of a server: both stacks are
\* built with c.jwtSecret; a stack built with an empty secret checks nothing
StackSecret(l) == jwtSecret

Authorized(c) == Len(StackSecret(c.listener)) = 0 \/ c.token = StackSecret(c.listener)

\* Run has returned, RunNode waits in its select, both listeners serve and
\* every worker serves a connection that passed the token check
NodeServing ==
    /\ runPc = "returned"
    /\ jwtFile = ValidJwtFile
    /\ jwtSecret = loadJwtSecret(ValidJwtFile).jwt
    /\ close = "chan"
    /\ runNodePc = "select"
    /\ rpcSrv = "running"
    /\ listener = [l \in Servers |-> "serving"]
    /\ inShutdown = [l \in Servers |-> FALSE]
    /\ closePc = [c \in Closers |-> "idle"]
    /\ conn = [w \in Workers |->
                  [listener |-> "srv", path |-> "/", token |-> loadJwtSecret(ValidJwtFile).jwt]]
    /\ startup = StartupSteps

\* NewEngineBackend: counter 0, empty cache; the chain holds the genesis header
Init ==
    /\ NodeServing
    /\ payloadIdCounter = 0
    /\ recentPayloads = <<>>
    /\ \E d \in GenesisDifficulties : chain = (GenesisHash :> Header(UnknownHash, d))
    /\ ttd \in TTDs
    /\ pc = [w \in Workers |-> "idle"]
    /\ req = [w \in Workers |-> NoReq]
    /\ loc = [w \in Workers |-> NoLoc]
    /\ resp = [w \in Workers |-> NoResp]
    /\ issued = {}
    /\ stored = {}
    /\ returned = {}
    /\ evicted = {}
    /\ useLog = <<>>

(***************************************************************************)
(* The chain component.                                                    *)
(***************************************************************************)
\* MockChain.AddNewBlock(head, ..., timestamp, ..., storeBlock = false)
AddNewBlock(parentHash, timestamp) ==
    [ParentHash |-> parentHash, Time |-> timestamp,
     Hash |-> ComputeHash(parentHash, timestamp)]

\* api.BlockToPayload
BlockToPayload(bl) ==
    [ParentHash |-> bl.ParentHash, Timestamp |-> bl.Time, BlockHash |-> bl.Hash]

\* MockChain.ProcessPayload: the chain after a successful execution
ProcessPayload(ch, payload, difficulty) ==
    IF payload.BlockHash \in DOMAIN ch THEN ch
    ELSE ch @@ (payload.BlockHash :> Header(payload.ParentHash, difficulty))

\* total difficulty of a header: the difficulty accumulated over its ancestry
RECURSIVE TotalDifficulty(_, _)
TotalDifficulty(ch, hash) ==
    IF hash \notin DOMAIN ch THEN 0
    ELSE ch[hash].Difficulty + TotalDifficulty(ch, ch[hash].ParentHash)

(***************************************************************************)
(* History bookkeeping for the cache.                                      *)
(***************************************************************************)
RemoveId(log, id) == SelectSeq(log, LAMBDA x : x # id)
Touch(log, id) == Append(RemoveId(log, id), id)

(***************************************************************************)
(* GetPayloadV1                                                            *)
(***************************************************************************)
GetPayloadV1(w, id) ==
    /\ pc[w] = "idle"
    /\ req' = [req EXCEPT ![w] = [NoReq EXCEPT !.op = "getPayload", !.id = Some(id)]]
    /\ IF id \in Keys(recentPayloads)
       THEN /\ resp' = [resp EXCEPT ![w] =
                            [NoResp EXCEPT !.Payload = Some(LruValue(recentPayloads, id))]]
            /\ useLog' = Touch(useLog, id)
       ELSE /\ resp' = [resp EXCEPT ![w] = [NoResp EXCEPT !.Err = UnavailablePayload]]
            /\ useLog' = useLog
    /\ recentPayloads' = LruGet(recentPayloads, id)
    /\ pc' = [pc EXCEPT ![w] = "done"]
    /\ UNCHANGED <<payloadIdCounter, chain, ttd, loc, issued, stored, returned, evicted, node>>

(***************************************************************************)
(* ForkchoiceUpdatedV1                                                     *)
(***************************************************************************)
NoAttributesResultNoHash(head) == [NoResp EXCEPT !.Status = ExecutionValid]

\* the result when attributes == nil
NoAttributesResult(head) ==
    [NoResp EXCEPT !.Status = ExecutionValid, !.LatestValidHash = Some(head)]

\* attributes == nil
ForkchoiceUpdatedV1NoAttributes(w, head) ==
    /\ pc[w] = "idle"
    /\ req' = [req EXCEPT ![w] = [NoReq EXCEPT !.op = "forkchoiceUpdated", !.head = head]]
    /\ resp' = [resp EXCEPT ![w] = NoAttributesResult(head)]
    /\ pc' = [pc EXCEPT ![w] = "done"]
    /\ UNCHANGED <<backend, loc, history, node>>

\* attributes present: take the next id from the counter
ForkchoiceUpdatedV1NextId(w, head, timestamp, maxCalls) ==
    /\ pc[w] = "idle"
    /\ payloadIdCounter < maxCalls
    /\ req' = [req EXCEPT ![w] = [NoReq EXCEPT !.op = "forkchoiceUpdated", !.head = head,
                                              !.attrs = Some(timestamp)]]
    /\ payloadIdCounter' = AddUint64(payloadIdCounter, 1)
    /\ loc' = [loc EXCEPT ![w] =
                   [NoLoc EXCEPT !.id = Some(BigEndianPutUint64(payloadIdCounter'))]]
    /\ issued' = issued \cup {[id |-> BigEndianPutUint64(payloadIdCounter'),
                               head |-> head, timestamp |-> timestamp]}
    /\ pc' = [pc EXCEPT ![w] = "build"]
    /\ UNCHANGED <<recentPayloads, chain, ttd, resp, stored, returned, evicted, useLog, node>>

\* the key the payload is cached under
StoreKeyFromCounter(w) == BigEndianPutUint64(payloadIdCounter)

StoreKey(w) == loc[w].id[1]

BuildFailureResultWithId(w) == [NoResp EXCEPT !.Err = ChainError, !.PayloadID = loc[w].id]

\* the result when AddNewBlock or BlockToPayload fails: nil and the error
BuildFailureResult(w) == [NoResp EXCEPT !.Err = ChainError]

\* AddNewBlock and BlockToPayload, which either fail (the error is returned)
\* or build the payload; then e.recentPayloads.Add(id, payload) and the
\* successful result
ForkchoiceUpdatedV1Build(w, outcomes) ==
    /\ pc[w] = "build"
    /\ \E ok \in outcomes :
         IF ok
         THEN LET payload == BlockToPayload(AddNewBlock(req[w].head, req[w].attrs[1]))
              IN  /\ loc' = [loc EXCEPT ![w].payload = Some(payload)]
                  /\ recentPayloads' = LruAdd(recentPayloads, StoreKey(w), payload)
                  /\ stored' = stored \cup {StoreKey(w)}
                  /\ evicted' = evicted \cup (Keys(recentPayloads) \ Keys(recentPayloads'))
                  /\ useLog' = Touch(useLog, StoreKey(w))
                  /\ resp' = [resp EXCEPT ![w] =
                                  [NoResp EXCEPT !.Status = ExecutionValid,
                                                 !.LatestValidHash = Some(req[w].head),
                                                 !.PayloadID = loc[w].id]]
         ELSE /\ resp' = [resp EXCEPT ![w] = BuildFailureResult(w)]
              /\ UNCHANGED <<loc, recentPayloads, stored, evicted, useLog>>
    /\ pc' = [pc EXCEPT ![w] = "done"]
    /\ UNCHANGED <<payloadIdCounter, chain, ttd, req, issued, returned, node>>

(***************************************************************************)
(* NewPayloadV1                                                            *)
(***************************************************************************)
\* the difficulty the gate compares with the terminal total difficulty:
\* parent.Difficulty
GateDifficulty(ch, hash) == ch[hash].Difficulty

Execute == "execute"

NewPayloadV1StatusLookupFirst(ch, threshold, payload) ==
    IF payload.ParentHash \notin DOMAIN ch THEN ExecutionSyncing
    ELSE IF ~ValidateHash(payload) THEN ExecutionInvalidBlockHash
    ELSE IF GateDifficulty(ch, payload.ParentHash) < threshold
    THEN ExecutionInvalidTerminalBlock
    ELSE Execute

NewPayloadV1StatusUnknownParentInvalid(ch, threshold, payload) ==
    IF ~ValidateHash(payload) THEN ExecutionInvalidBlockHash
    ELSE IF payload.ParentHash \notin DOMAIN ch THEN ExecutionInvalidTerminalBlock
    ELSE IF GateDifficulty(ch, payload.ParentHash) < threshold
    THEN ExecutionInvalidTerminalBlock
    ELSE Execute

NewPayloadV1StatusNoGate(ch, threshold, payload) ==
    IF ~ValidateHash(payload) THEN ExecutionInvalidBlockHash
    ELSE IF payload.ParentHash \notin DOMAIN ch THEN ExecutionSyncing
    ELSE Execute

\* the status NewPayloadV1 answers before execution, or Execute
NewPayloadV1Status(ch, threshold, payload) ==
    IF ~ValidateHash(payload) THEN ExecutionInvalidBlockHash
    ELSE IF payload.ParentHash \notin DOMAIN ch THEN ExecutionSyncing
    ELSE IF GateDifficulty(ch, payload.ParentHash) < threshold
    THEN ExecutionInvalidTerminalBlock
    ELSE Execute

\* ValidateHash, GetHeaderByHash and the difficulty gate
NewPayloadV1Check(w, payload) ==
    /\ pc[w] = "idle"
    /\ req' = [req EXCEPT ![w] = [NoReq EXCEPT !.op = "newPayload", !.payload = Some(payload)]]
    /\ LET status == NewPayloadV1Status(chain, ttd, payload)
       IN  IF status = Execute
           THEN /\ resp' = resp
                /\ pc' = [pc EXCEPT ![w] = "exec"]
           ELSE /\ resp' = [resp EXCEPT ![w] = [NoResp EXCEPT !.Status = status]]
                /\ pc' = [pc EXCEPT ![w] = "done"]
    /\ UNCHANGED <<backend, loc, history, node>>

\* e.mockChain.ProcessPayload(payload)
NewPayloadV1Exec(w) ==
    /\ pc[w] = "exec"
    /\ \/ /\ \E d \in Difficulties :
               chain' = ProcessPayload(chain, req[w].payload[1], d)
          /\ resp' = [resp EXCEPT ![w] = [NoResp EXCEPT !.Status = ExecutionValid]]
       \/ /\ chain' = chain
          /\ resp' = [resp EXCEPT ![w] = [NoResp EXCEPT !.Err = ChainError]]
    /\ pc' = [pc EXCEPT ![w] = "done"]
    /\ UNCHANGED <<payloadIdCounter, recentPayloads, ttd, req, loc, history, node>>

(***************************************************************************)
(* The response leaves the handler: the worker takes the next request.     *)
(***************************************************************************)
Return(w) ==
    /\ pc[w] = "done"
    /\ returned' = IF resp[w].PayloadID # Nil
                   THEN returned \cup {resp[w].PayloadID[1]}
                   ELSE returned
    /\ pc' = [pc EXCEPT ![w] = "idle"]
    /\ req' = [req EXCEPT ![w] = NoReq]
    /\ loc' = [loc EXCEPT ![w] = NoLoc]
    /\ resp' = [resp EXCEPT ![w] = NoResp]
    /\ UNCHANGED <<backend, issued, stored, evicted, useLog, node>>

(***************************************************************************)
(* Inputs.                                                                 *)
(***************************************************************************)
Heads == {GenesisHash, UnknownHash}

ParentHashes == {UnknownHash, GenesisHash, ComputeHash(GenesisHash, 1)}

Payloads ==
    {[ParentHash |-> p, Timestamp |-> t, BlockHash |-> ComputeHash(p, t) + tamper] :
        p \in ParentHashes, t \in Timestamps, tamper \in {0, 1}}

\* an id far above the counter: only its most significant byte is set
HighId == [i \in 1..8 |-> IF i = 1 THEN 1 ELSE 0]

\* the all-zero id, the ids the counter can reach, one above them, and HighId
PayloadIDs(maxCalls) ==
    {BigEndianPutUint64(n) : n \in 0..(maxCalls + 1)} \cup {HighId}

(***************************************************************************)
(* Spec: prepare and retrieve payloads, with varied inputs and failing      *)
(* constructions.                                                          *)
(***************************************************************************)
Next ==
    \E w \in Workers :
        \/ \E id \in PayloadIDs(MaxCalls) : GetPayloadV1(w, id)
        \/ \E head \in Heads : ForkchoiceUpdatedV1NoAttributes(w, head)
        \/ \E head \in Heads, t \in Timestamps :
               ForkchoiceUpdatedV1NextId(w, head, t, MaxCalls)
        \/ ForkchoiceUpdatedV1Build(w, BOOLEAN)
        \/ Return(w)

Spec == Init /\ [][Next]_vars

(***************************************************************************)
(* SpecChain: all three handlers; NewPayloadV1 grows the chain.            *)
(***************************************************************************)
NextChain ==
    \E w \in Workers :
        \/ \E id \in PayloadIDs(MaxCallsChain) : GetPayloadV1(w, id)
        \/ \E head \in Heads : ForkchoiceUpdatedV1NoAttributes(w, head)
        \/ \E head \in Heads, t \in Timestamps :
               ForkchoiceUpdatedV1NextId(w, head, t, MaxCallsChain)
        \/ ForkchoiceUpdatedV1Build(w, BOOLEAN)
        \/ \E payload \in Payloads : NewPayloadV1Check(w, payload)
        \/ NewPayloadV1Exec(w)
        \/ Return(w)

SpecChain == Init /\ [][NextChain]_vars

(***************************************************************************)
(* SpecLRU: enough successful prepare calls on the genesis head to         *)
(* overfill the cache, while the first payload is read.                    *)
(***************************************************************************)
LRUReadIds == {BigEndianPutUint64(1)}

InitLRU == Init /\ \A t \in TTDs : ttd <= t

NextLRU ==
    \E w \in Workers :
        \/ \E id \in LRUReadIds : GetPayloadV1(w, id)
        \/ \E t \in {CHOOSE t \in Timestamps : TRUE} :
               ForkchoiceUpdatedV1NextId(w, GenesisHash, t, MaxCallsLRU)
        \/ ForkchoiceUpdatedV1Build(w, {TRUE})
        \/ Return(w)

SpecLRU == InitLRU /\ [][NextLRU]_vars

(***************************************************************************)
(* Startup: Run.                                                           *)
(***************************************************************************)
handler == <<pc, req, loc, resp>>

NoChain == [h \in {} |-> Header(UnknownHash, 0)]

\* the state before Run: nothing is constructed
InitNodeWith(files) ==
    /\ payloadIdCounter = 0
    /\ recentPayloads = <<>>
    /\ chain = NoChain
    /\ ttd \in TTDs
    /\ pc = [w \in Workers |-> "idle"]
    /\ req = [w \in Workers |-> NoReq]
    /\ loc = [w \in Workers |-> NoLoc]
    /\ resp = [w \in Workers |-> NoResp]
    /\ issued = {}
    /\ stored = {}
    /\ returned = {}
    /\ evicted = {}
    /\ useLog = <<>>
    /\ runPc = "initLogger"
    /\ jwtFile \in files
    /\ jwtSecret = <<>>
    /\ close = "nil"
    /\ runNodePc = "notStarted"
    /\ rpcSrv = "nil"
    /\ listener = [l \in Servers |-> "none"]
    /\ inShutdown = [l \in Servers |-> FALSE]
    /\ closePc = [c \in Closers |-> "idle"]
    /\ conn = [w \in Workers |-> NoConn]
    /\ startup = <<>>

FatalLogsOnly(next) == next

\* c.log...Fatal(...): the process exits
Fatal(next) == "exited"

\* c.initLogger(ctx): an error is returned by Run; otherwise c.close is made
RunInitLogger ==
    /\ runPc = "initLogger"
    /\ \/ /\ runPc' = "failed"
          /\ UNCHANGED <<close, startup>>
       \/ /\ close' = "chan"
          /\ startup' = Append(startup, "initLogger")
          /\ runPc' = "loadJwtSecret"
    /\ UNCHANGED <<backend, handler, history, jwtFile, jwtSecret, runNodePc, rpcSrv,
                   listener, inShutdown, closePc, conn>>

\* jwt, err := loadJwtSecret(c.JwtSecretPath); c.jwtSecret = jwt
RunLoadJwtSecret ==
    /\ runPc = "loadJwtSecret"
    /\ LET res == loadJwtSecret(jwtFile)
       IN  IF res.err # NoError
           THEN /\ runPc' = Fatal("makeMockChain")
                /\ UNCHANGED <<jwtSecret, startup>>
           ELSE /\ jwtSecret' = res.jwt
                /\ startup' = Append(startup, "loadJwtSecret")
                /\ runPc' = "makeMockChain"
    /\ UNCHANGED <<backend, handler, history, jwtFile, close, runNodePc, rpcSrv,
                   listener, inShutdown, closePc, conn>>

\* chain, err := c.makeMockChain(): NewDB or NewMockChain may fail
RunMakeMockChain ==
    /\ runPc = "makeMockChain"
    /\ \/ /\ runPc' = Fatal("NewEngineBackend")
          /\ UNCHANGED <<chain, startup>>
       \/ /\ \E d \in GenesisDifficulties :
                chain' = (GenesisHash :> Header(UnknownHash, d))
          /\ startup' = Append(startup, "makeMockChain")
          /\ runPc' = "NewEngineBackend"
    /\ UNCHANGED <<payloadIdCounter, recentPayloads, ttd, handler, history, jwtFile,
                   jwtSecret, close, runNodePc, rpcSrv, listener, inShutdown, closePc, conn>>

\* backend, err := NewEngineBackend(c.log, chain): lru.New fails for a size
\* that is not positive
RunNewEngineBackend ==
    /\ runPc = "NewEngineBackend"
    /\ IF CacheSize <= 0
       THEN /\ runPc' = Fatal("startRPC")
            /\ UNCHANGED <<payloadIdCounter, recentPayloads, startup>>
       ELSE /\ payloadIdCounter' = 0
            /\ recentPayloads' = <<>>
            /\ startup' = Append(startup, "NewEngineBackend")
            /\ runPc' = "startRPC"
    /\ UNCHANGED <<chain, ttd, handler, history, jwtFile, jwtSecret, close, runNodePc,
                   rpcSrv, listener, inShutdown, closePc, conn>>

\* c.startRPC(ctx): the RPC server and the two http.Server values are built
RunStartRPC ==
    /\ runPc = "startRPC"
    /\ rpcSrv' = "running"
    /\ startup' = Append(startup, "startRPC")
    /\ runPc' = "go RunNode"
    /\ UNCHANGED <<backend, handler, history, jwtFile, jwtSecret, close, runNodePc,
                   listener, inShutdown, closePc, conn>>

\* go c.RunNode(); return nil
RunGoRunNode ==
    /\ runPc = "go RunNode"
    /\ runNodePc' = "start"
    /\ runPc' = "returned"
    /\ UNCHANGED <<backend, handler, history, jwtFile, jwtSecret, close, rpcSrv,
                   listener, inShutdown, closePc, conn, startup>>

RunStep ==
    \/ RunInitLogger
    \/ RunLoadJwtSecret
    \/ RunMakeMockChain
    \/ RunNewEngineBackend
    \/ RunStartRPC
    \/ RunGoRunNode

(***************************************************************************)
(* RunNode, the two ListenAndServe goroutines, and Close.                  *)
(***************************************************************************)
\* go c.srv.ListenAndServe(); go c.wsSrv.ListenAndServe()
RunNodeStart ==
    /\ runNodePc = "start"
    /\ listener' = [l \in Servers |-> "spawned"]
    /\ runNodePc' = "select"
    /\ UNCHANGED <<backend, handler, history, runPc, jwtFile, jwtSecret, close, rpcSrv,
                   inShutdown, closePc, conn, startup>>

\* case <-c.close: the receive meets the send of one caller of Close, which
\* then returns
RunNodeReceive(c) ==
    /\ runNodePc = "select"
    /\ closePc[c] = "sending"
    /\ closePc' = [closePc EXCEPT ![c] = "returned"]
    /\ runNodePc' = "rpcSrv.Stop"
    /\ UNCHANGED <<backend, handler, history, runPc, jwtFile, jwtSecret, close, rpcSrv,
                   listener, inShutdown, conn, startup>>

\* c.rpcSrv.Stop(): requests that arrive later are not served
RunNodeStopRpc ==
    /\ runNodePc = "rpcSrv.Stop"
    /\ rpcSrv' = "stopped"
    /\ runNodePc' = "srv.Close"
    /\ UNCHANGED <<backend, handler, history, runPc, jwtFile, jwtSecret, close,
                   listener, inShutdown, closePc, conn, startup>>

\* http.Server.Close: the server is shutting down from now on, its listener
\* and its connections are closed
ServerClose(l) ==
    /\ inShutdown' = [inShutdown EXCEPT ![l] = TRUE]
    /\ listener' = [listener EXCEPT ![l] = IF @ = "serving" THEN "closed" ELSE @]
    /\ conn' = [w \in Workers |-> IF conn[w].listener = l THEN NoConn ELSE conn[w]]

SrvCloseTarget == "srv"

WsSrvCloseTargetSrv == "srv"

WsSrvCloseTarget == "wsSrv"

\* c.srv.Close()
RunNodeCloseSrv ==
    /\ runNodePc = "srv.Close"
    /\ ServerClose(SrvCloseTarget)
    /\ runNodePc' = "wsSrv.Close"
    /\ UNCHANGED <<backend, handler, history, runPc, jwtFile, jwtSecret, close, rpcSrv,
                   closePc, startup>>

\* c.wsSrv.Close(); return
RunNodeCloseWsSrv ==
    /\ runNodePc = "wsSrv.Close"
    /\ ServerClose(WsSrvCloseTarget)
    /\ runNodePc' = "returned"
    /\ UNCHANGED <<backend, handler, history, runPc, jwtFile, jwtSecret, close, rpcSrv,
                   closePc, startup>>

RunNodeStep ==
    \/ RunNodeStart
    \/ \E c \in Closers : RunNodeReceive(c)
    \/ RunNodeStopRpc
    \/ RunNodeCloseSrv
    \/ RunNodeCloseWsSrv

\* http.Server.ListenAndServe: ErrServerClosed when the server is shutting
\* down; otherwise net.Listen binds the address, or fails
ListenAndServe(l) ==
    /\ listener[l] = "spawned"
    /\ IF inShutdown[l]
       THEN listener' = [listener EXCEPT ![l] = "closed"]
       ELSE \E state \in {"bound", "closed"} : listener' = [listener EXCEPT ![l] = state]
    /\ UNCHANGED <<backend, handler, history, runPc, jwtFile, jwtSecret, close,
                   runNodePc, rpcSrv, inShutdown, closePc, conn, startup>>

\* http.Server.Serve: trackListener refuses a server that is shutting down
\* and the bound listener is closed; otherwise connections are accepted
Serve(l) ==
    /\ listener[l] = "bound"
    /\ listener' = [listener EXCEPT ![l] = IF inShutdown[l] THEN "closed" ELSE "serving"]
    /\ UNCHANGED <<backend, handler, history, runPc, jwtFile, jwtSecret, close,
                   runNodePc, rpcSrv, inShutdown, closePc, conn, startup>>

\* Close: if c.close != nil, the send c.close <- struct{}{} waits for a receiver
CloseCall(c) ==
    /\ runPc # "exited"
    /\ closePc[c] = "idle"
    /\ closePc' = [closePc EXCEPT ![c] = IF close = "nil" THEN "returned" ELSE "sending"]
    /\ UNCHANGED <<backend, handler, history, runPc, jwtFile, jwtSecret, close,
                   runNodePc, rpcSrv, listener, inShutdown, conn, startup>>

(***************************************************************************)
(* Requests on the two listeners.                                          *)
(***************************************************************************)
Unauthorized == "unauthorized"
WrongPort == "wrong port, use the websocket port"

\* a client connects to a serving listener
Accept(w, l, path, token) ==
    /\ pc[w] = "idle"
    /\ conn[w] = NoConn
    /\ listener[l] = "serving"
    /\ conn' = [conn EXCEPT ![w] = [listener |-> l, path |-> path, token |-> token]]
    /\ UNCHANGED <<backend, handler, history, runPc, jwtFile, jwtSecret, close,
                   runNodePc, rpcSrv, listener, inShutdown, closePc, startup>>

\* the client goes away
Disconnect(w) ==
    /\ pc[w] = "idle"
    /\ conn[w] # NoConn
    /\ conn' = [conn EXCEPT ![w] = NoConn]
    /\ UNCHANGED <<backend, handler, history, runPc, jwtFile, jwtSecret, close,
                   runNodePc, rpcSrv, listener, inShutdown, closePc, startup>>

\* a request of the connection reaches the RPC server: the listener serves,
\* the route leads to the handler stack, the token check passes and the RPC
\* server runs
CanDispatch(w) ==
    /\ conn[w] # NoConn
    /\ listener[conn[w].listener] = "serving"
    /\ Route(conn[w]) = "rpc"
    /\ Authorized(conn[w])
    /\ rpcSrv = "running"

\* the request is answered 400 by the "/ws" route of the HTTP server, or 401
\* by the token check
Reject(w) ==
    /\ pc[w] = "idle"
    /\ conn[w] # NoConn
    /\ listener[conn[w].listener] = "serving"
    /\ Route(conn[w]) # "rpc" \/ ~Authorized(conn[w])
    /\ req' = [req EXCEPT ![w] = [NoReq EXCEPT !.op = "rejected"]]
    /\ resp' = [resp EXCEPT ![w] =
                    [NoResp EXCEPT !.Err = IF Route(conn[w]) # "rpc" THEN WrongPort
                                           ELSE Unauthorized]]
    /\ pc' = [pc EXCEPT ![w] = "done"]
    /\ UNCHANGED <<backend, loc, history, node>>

(***************************************************************************)
(* SpecNode: startup, requests on both listeners, and shutdown.  Run,      *)
(* RunNode and the ListenAndServe goroutines are scheduled fairly; clients *)
(* and callers of Close are not obliged to act.                            *)
(***************************************************************************)
NodeWorkers == {1}

NodeJwtFiles == {ValidJwtFile, MissingFile, FileOf(HexRun(2))}

NodeTokens == {loadJwtSecret(ValidJwtFile).jwt, WrongSecret, NoToken}

NodePayloads == {p \in Payloads : p.ParentHash = GenesisHash /\ p.Timestamp = 1}

InitNode == InitNodeWith(NodeJwtFiles)

NextNode ==
    \/ RunInitLogger
    \/ RunLoadJwtSecret
    \/ RunMakeMockChain
    \/ RunNewEngineBackend
    \/ RunStartRPC
    \/ RunGoRunNode
    \/ RunNodeStart
    \/ \E c \in Closers : RunNodeReceive(c)
    \/ RunNodeStopRpc
    \/ RunNodeCloseSrv
    \/ RunNodeCloseWsSrv
    \/ \E l \in Servers : ListenAndServe(l)
    \/ \E l \in Servers : Serve(l)
    \/ \E c \in Closers : CloseCall(c)
    \/ \E w \in NodeWorkers :
          \/ \E l \in Servers, path \in Paths, token \in NodeTokens : Accept(w, l, path, token)
          \/ Disconnect(w)
          \/ Reject(w)
          \/ CanDispatch(w) /\ GetPayloadV1(w, BigEndianPutUint64(1))
          \/ CanDispatch(w) /\ ForkchoiceUpdatedV1NoAttributes(w, GenesisHash)
          \/ CanDispatch(w) /\ ForkchoiceUpdatedV1NextId(w, GenesisHash, 1, MaxCallsNode)
          \/ ForkchoiceUpdatedV1Build(w, BOOLEAN)
          \/ CanDispatch(w) /\ \E payload \in NodePayloads : NewPayloadV1Check(w, payload)
          \/ NewPayloadV1Exec(w)
          \/ Return(w)

SpecNode ==
    /\ InitNode
    /\ [][NextNode]_vars
    /\ WF_vars(RunStep)
    /\ WF_vars(RunNodeStep)
    /\ \A l \in Servers : WF_vars(ListenAndServe(l) \/ Serve(l))

(***************************************************************************)
(* SpecJwt: Run up to the loading of the secret, over secret files of      *)
(* every length up to MaxJwtLen with at most one character that is no hex  *)
(* digit, at every position.                                               *)
(***************************************************************************)
WithNonHexAt(n, i) == [j \in 1..n |-> IF j = i THEN NonHexChar ELSE j % 16]

JwtFiles ==
    {MissingFile}
        \cup {FileOf(HexRun(n)) : n \in 0..MaxJwtLen}
        \cup {FileOf(WithNonHexAt(n, i)) : n \in 1..MaxJwtLen, i \in 1..MaxJwtLen}

InitJwt == InitNodeWith(JwtFiles)

NextJwt ==
    \/ RunInitLogger
    \/ RunLoadJwtSecret

SpecJwt == InitJwt /\ [][NextJwt]_vars

(***************************************************************************)
(* Properties.                                                             *)
(***************************************************************************)
IssuedIds == {r.id : r \in issued}

\* ids stored by a prepare call that is about to return them
InFlight == {resp[w].PayloadID[1] : w \in {v \in Workers : resp[v].PayloadID # Nil}}

Finished(w, op) == pc[w] = "done" /\ req[w].op = op

\* C1: the PayloadIDs returned are pairwise distinct, and an id taken from the
\* counter is greater, as a big-endian unsigned integer, than every id taken
\* before it, in every interleaving of succeeding and failing prepare calls.
C1_DistinctIncreasingIds ==
    [][\A w \in Workers :
          /\ (pc[w] = "idle" /\ pc'[w] = "build")
                => \A r \in issued : BigEndianLess(r.id, loc'[w].id[1])
          /\ (pc[w] = "done" /\ pc'[w] = "idle" /\ resp[w].PayloadID # Nil)
                => /\ resp[w].PayloadID[1] \notin returned
                   /\ \A v \in Workers \ {w} : resp[v].PayloadID # resp[w].PayloadID]_vars

C1_Witness == \E a \in returned, b \in returned : BigEndianLess(a, b)

\* C2: ForkchoiceUpdatedV1 without attributes answers VALID with
\* latestValidHash = headBlockHash and no PayloadID, for every head, and
\* changes neither the counter nor the cache.
C2_NoAttributes ==
    /\ [](\A w \in Workers :
            (Finished(w, "forkchoiceUpdated") /\ req[w].attrs = Nil)
               => /\ resp[w].Status = ExecutionValid
                  /\ resp[w].LatestValidHash = Some(req[w].head)
                  /\ resp[w].PayloadID = Nil
                  /\ resp[w].Err = NoError)
    /\ [][\A w \in Workers :
            (pc[w] = "idle" /\ pc'[w] = "done" /\ req'[w].op = "forkchoiceUpdated")
               => UNCHANGED <<payloadIdCounter, recentPayloads>>]_vars

C2_Witness ==
    \E w \in Workers :
        /\ Finished(w, "forkchoiceUpdated") /\ req[w].attrs = Nil
        /\ req[w].head = UnknownHash
        /\ recentPayloads # <<>>

\* C3: a ForkchoiceUpdatedV1 result carries a PayloadID exactly when attributes
\* were supplied and the payload was built; a failed construction returns an
\* error and no PayloadID, and the call leaves the cache as it was.
C3_IdIffBuilt ==
    /\ [](\A w \in Workers :
            Finished(w, "forkchoiceUpdated")
               => /\ resp[w].PayloadID # Nil <=> (req[w].attrs # Nil /\ loc[w].payload # Nil)
                  /\ (req[w].attrs # Nil /\ loc[w].payload = Nil)
                        => /\ resp[w].Err # NoError
                           /\ resp[w].Status = "none"
                           /\ resp[w].PayloadID = Nil)
    /\ [][\A w \in Workers :
            ((pc[w] = "idle" /\ pc'[w] = "build")
               \/ (pc[w] = "build" /\ pc'[w] = "done" /\ resp'[w].Err # NoError))
               => recentPayloads' = recentPayloads]_vars

C3_Witness ==
    \E w \in Workers :
        /\ Finished(w, "forkchoiceUpdated") /\ req[w].attrs # Nil
        /\ resp[w].Err # NoError
        /\ recentPayloads # <<>>

\* C4: GetPayloadV1 of an id that a successful prepare call returned answers
\* the payload that call built (its head as parent hash, its timestamp), and
\* no cache entry holds the payload of a call that was given another id.
BuiltFor(payload, id) ==
    \A r \in issued :
        r.id = id => payload.ParentHash = r.head /\ payload.Timestamp = r.timestamp

C4_GetReturnsBuiltPayload ==
    /\ [][\A w \in Workers :
            (pc[w] = "idle" /\ pc'[w] = "done" /\ req'[w].op = "getPayload"
               /\ req'[w].id[1] \in returned /\ req'[w].id[1] \notin evicted)
               => /\ resp'[w].Err = NoError
                  /\ resp'[w].Payload # Nil
                  /\ req'[w].id[1] \in IssuedIds
                  /\ BuiltFor(resp'[w].Payload[1], req'[w].id[1])]_vars
    /\ [](\A i \in 1..Len(recentPayloads) :
            /\ recentPayloads[i].key \in IssuedIds
            /\ BuiltFor(recentPayloads[i].value, recentPayloads[i].key))

C4_Witness ==
    \E w \in Workers :
        /\ Finished(w, "getPayload") /\ resp[w].Payload # Nil
        /\ req[w].id[1] \in returned
        /\ \E r \in issued :
              /\ r.id # req[w].id[1]
              /\ r.id \in Keys(recentPayloads)
              /\ r.head # resp[w].Payload[1].ParentHash
              /\ r.timestamp # resp[w].Payload[1].Timestamp

\* C5 as stated: GetPayloadV1 of an id that no successful prepare call has
\* returned answers the UnavailablePayload error and no payload, and changes
\* neither the cache nor the counter.
C5_Original ==
    [][\A w \in Workers :
          (pc[w] = "idle" /\ pc'[w] = "done" /\ req'[w].op = "getPayload"
             /\ req'[w].id[1] \notin returned)
             => /\ resp'[w].Err = UnavailablePayload
                /\ resp'[w].Payload = Nil
                /\ UNCHANGED <<recentPayloads, payloadIdCounter>>]_vars

\* C5 amended: GetPayloadV1 of an id that no successful prepare call has
\* returned, and that no prepare call has cached and is about to return,
\* answers the UnavailablePayload error and no payload, and changes neither
\* the cache nor the counter.
C5_UnknownIdUnavailable ==
    [][\A w \in Workers :
          (pc[w] = "idle" /\ pc'[w] = "done" /\ req'[w].op = "getPayload"
             /\ req'[w].id[1] \notin returned \cup InFlight)
             => /\ resp'[w].Err = UnavailablePayload
                /\ resp'[w].Payload = Nil
                /\ UNCHANGED <<recentPayloads, payloadIdCounter>>]_vars

C5_Witness ==
    \E w \in Workers :
        /\ Finished(w, "getPayload") /\ resp[w].Err = UnavailablePayload
        /\ req[w].id[1] \in IssuedIds
        /\ req[w].id[1] \notin returned \cup InFlight
        /\ recentPayloads # <<>>

\* C6 as stated: in every state the cache holds an entry for an id exactly
\* when a successful prepare call returned that id and it was not evicted.
KnownIds == IssuedIds \cup Keys(recentPayloads) \cup returned

C6_Original ==
    \A id \in KnownIds :
        id \in Keys(recentPayloads) <=> (id \in returned /\ id \notin evicted)

\* C6 amended: in every state the cache holds an entry for an id exactly when
\* a successful prepare call returned that id, or has cached its payload and
\* is about to return it, and the id was not evicted.
C6_EntryIffReturned ==
    \A id \in KnownIds :
        id \in Keys(recentPayloads) <=> (id \in returned \cup InFlight /\ id \notin evicted)

C6_Witness ==
    /\ returned \cap evicted # {}
    /\ InFlight # {}
    /\ \E id \in returned : id \in Keys(recentPayloads)

\* C7: the cache never holds more than 10 entries.
C7_AtMostTenEntries == Len(recentPayloads) <= 10

\* eleven payloads were cached, the last two by calls that overlapped
C7_Witness ==
    /\ Len(recentPayloads) = 10
    /\ Cardinality(stored) = 11
    /\ recentPayloads[1].key # BigEndianPutUint64(1)
    /\ BigEndianLess(recentPayloads[1].key, recentPayloads[2].key)

\* C8: caching a new payload while 10 are held removes exactly the entry
\* whose last use (insertion or GetPayloadV1 hit) is the oldest, and the
\* others stay in the cache with their payloads.
LeastRecentlyUsed ==
    useLog[CHOOSE i \in 1..Len(useLog) :
             /\ useLog[i] \in Keys(recentPayloads)
             /\ \A j \in 1..(i - 1) : useLog[j] \notin Keys(recentPayloads)]

C8_EvictsLeastRecentlyUsed ==
    [][\A w \in Workers :
          (pc[w] = "build" /\ pc'[w] = "done" /\ resp'[w].PayloadID # Nil
             /\ Len(recentPayloads) = 10
             /\ resp'[w].PayloadID[1] \notin Keys(recentPayloads))
             => /\ Keys(recentPayloads') =
                      (Keys(recentPayloads) \ {LeastRecentlyUsed})
                         \cup {resp'[w].PayloadID[1]}
                /\ \A k \in Keys(recentPayloads) \ {LeastRecentlyUsed} :
                      LruValue(recentPayloads', k) = LruValue(recentPayloads, k)]_vars

\* the payload cached first was read and outlives one cached after it
C8_Witness ==
    /\ BigEndianPutUint64(1) \in Keys(recentPayloads)
    /\ BigEndianPutUint64(2) \in evicted

\* C9: NewPayloadV1 of a payload whose declared hash does not match its
\* content answers INVALID_BLOCK_HASH without an error, whatever the state
\* of the parent, and changes neither the chain, the cache nor the counter.
C9_TamperedHash ==
    [][\A w \in Workers :
          (pc[w] = "idle" /\ pc'[w] # "idle" /\ req'[w].op = "newPayload"
             /\ ~ValidateHash(req'[w].payload[1]))
             => /\ pc'[w] = "done"
                /\ resp'[w].Status = ExecutionInvalidBlockHash
                /\ resp'[w].Err = NoError
                /\ UNCHANGED <<chain, recentPayloads, payloadIdCounter>>]_vars

C9_Witness ==
    \E w \in Workers :
        /\ Finished(w, "newPayload")
        /\ ~ValidateHash(req[w].payload[1])
        /\ req[w].payload[1].ParentHash \in DOMAIN chain
        /\ chain[req[w].payload[1].ParentHash].Difficulty >= ttd
        /\ resp[w].Status = ExecutionInvalidBlockHash

\* C10 as stated: NewPayloadV1 of a hash-valid payload with a known parent
\* answers INVALID_TERMINAL_BLOCK exactly when the total difficulty of the
\* parent is below the terminal total difficulty, and executes otherwise.
C10_Original ==
    [][\A w \in Workers :
          (pc[w] = "idle" /\ pc'[w] # "idle" /\ req'[w].op = "newPayload"
             /\ ValidateHash(req'[w].payload[1])
             /\ req'[w].payload[1].ParentHash \in DOMAIN chain)
             => IF TotalDifficulty(chain, req'[w].payload[1].ParentHash) < ttd
                THEN pc'[w] = "done" /\ resp'[w].Status = ExecutionInvalidTerminalBlock
                ELSE pc'[w] = "exec"]_vars

\* C11: NewPayloadV1 answers a payload whose hash is valid and whose parent
\* is not in the chain with SYNCING and no error, in the step that looks the
\* parent up: the payload is not executed and the chain is unchanged.
C11_UnknownParentSyncing ==
    [][\A w \in Workers :
          (/\ pc[w] = "idle"
           /\ req'[w].op = "newPayload"
           /\ ValidateHash(req'[w].payload[1])
           /\ req'[w].payload[1].ParentHash \notin DOMAIN chain)
             => /\ pc'[w] = "done"
                /\ resp'[w].Status = ExecutionSyncing
                /\ resp'[w].Err = NoError
                /\ chain' = chain]_vars

C11_Witness ==
    \E w \in Workers :
        /\ Finished(w, "newPayload")
        /\ ValidateHash(req[w].payload[1])
        /\ req[w].payload[1].ParentHash \notin DOMAIN chain
        /\ resp[w].Status = ExecutionSyncing

\* C12: NewPayloadV1 answers VALID only in the execution step, for a payload
\* whose hash is valid, whose parent is known and passes the difficulty gate
\* and whose block the chain accepted; a failed execution is answered with an
\* error and no status; INVALID_BLOCK_HASH, SYNCING and
\* INVALID_TERMINAL_BLOCK are answered without an error.
C12_ValidOnlyAfterExecution ==
    /\ [](\A w \in Workers :
            Finished(w, "newPayload") =>
                LET p == req[w].payload[1]
                    r == resp[w]
                IN  /\ r.Status = ExecutionValid =>
                          /\ ValidateHash(p)
                          /\ p.ParentHash \in DOMAIN chain
                          /\ chain[p.ParentHash].Difficulty >= ttd
                          /\ TotalDifficulty(chain, p.ParentHash) >= ttd
                          /\ p.BlockHash \in DOMAIN chain
                          /\ r.Err = NoError
                    /\ r.Err # NoError => r.Status = "none"
                    /\ r.Status \in {ExecutionInvalidBlockHash, ExecutionSyncing,
                                      ExecutionInvalidTerminalBlock} => r.Err = NoError
                    /\ r.Status # "none" \/ r.Err # NoError)
    /\ [][\A w \in Workers :
            (req'[w].op = "newPayload" /\ resp'[w].Status = ExecutionValid
                /\ resp[w].Status # ExecutionValid)
              => pc[w] = "exec" /\ pc'[w] = "done"]_vars

C12_Witness ==
    \E w \in Workers, v \in Workers :
        /\ Finished(w, "newPayload") /\ resp[w].Status = ExecutionValid
        /\ Finished(v, "newPayload") /\ resp[v].Err = ChainError

\* the unsigned integer an id whose four most significant bytes are zero
\* encodes big-endian
BigEndianUint64(id) == id[5] * Pow256(3) + id[6] * Pow256(2) + id[7] * Pow256(1) + id[8]

MaxIssued ==
    CHOOSE n \in {BigEndianUint64(r.id) : r \in issued} :
        \A r \in issued : BigEndianUint64(r.id) <= n

\* C13: the id a prepare call takes is, read as a big-endian unsigned
\* integer, one more than the id the prepare call before it took; the first
\* id of a fresh backend is 1; the all-zero id is never issued.
C13_ConsecutiveIds ==
    /\ []([i \in 1..8 |-> 0] \notin IssuedIds \cup returned \cup InFlight)
    /\ [][\A w \in Workers :
            (pc[w] = "idle" /\ pc'[w] = "build") =>
                LET id == loc'[w].id[1]
                IN  /\ \A i \in 1..4 : id[i] = 0
                    /\ BigEndianUint64(id) = IF issued = {} THEN 1 ELSE MaxIssued + 1
                    /\ resp'[w].PayloadID = Nil]_vars

C13_Witness ==
    /\ <<0, 0, 0, 0, 0, 0, 0, 1>> \in returned
    /\ <<0, 0, 0, 0, 0, 0, 0, 2>> \in returned

\* C14 as stated: every id the counter issued belongs to a prepare call that
\* succeeded (it was returned, or its call is still under way and has not
\* failed), so that a failing prepare call leaves no trace in the counter.
C14_Original ==
    \A id \in IssuedIds :
        \/ id \in returned
        \/ \E w \in Workers : loc[w].id = Some(id) /\ resp[w].Err = NoError

\* C14: every id returned to a caller or held in the cache was taken from
\* the counter by a prepare call whose construction succeeded; a prepare call
\* whose construction fails returns no id and caches nothing, and the counter
\* keeps the value that call took: the value is never handed out.
C14_IdsOnlyFromSuccess ==
    /\ [](/\ returned \cup Keys(recentPayloads) \cup InFlight \subseteq stored
          /\ stored \subseteq IssuedIds)
    /\ [][\A w \in Workers :
            (pc[w] = "build" /\ pc'[w] = "done" /\ resp'[w].Err # NoError) =>
                /\ payloadIdCounter' = payloadIdCounter
                /\ loc[w].id[1] \in IssuedIds
                /\ loc[w].id[1] \notin stored'
                /\ resp'[w].PayloadID = Nil
                /\ recentPayloads' = recentPayloads]_vars

C14_Witness ==
    /\ payloadIdCounter = 2
    /\ returned # {}
    /\ \E w \in Workers :
          /\ Finished(w, "forkchoiceUpdated")
          /\ resp[w].Err # NoError
          /\ loc[w].id # Nil
          /\ loc[w].id[1] \notin returned

\* C20: no step of NewPayloadV1 changes the counter or the cache, whatever
\* the outcome; GetPayloadV1, hit or miss, changes neither the counter, nor
\* the set of cached ids, nor the payload cached under any id, and a hit
\* answers the payload that stays cached under the id.
C20_ReadOnlyHandlers ==
    [][\A w \in Workers :
          /\ (req'[w].op = "newPayload" /\ pc'[w] # pc[w])
                => /\ payloadIdCounter' = payloadIdCounter
                   /\ recentPayloads' = recentPayloads
          /\ (pc[w] = "idle" /\ req'[w].op = "getPayload")
                => /\ payloadIdCounter' = payloadIdCounter
                   /\ Len(recentPayloads') = Len(recentPayloads)
                   /\ Keys(recentPayloads') = Keys(recentPayloads)
                   /\ \A k \in Keys(recentPayloads) :
                          LruValue(recentPayloads', k) = LruValue(recentPayloads, k)
                   /\ resp'[w].Payload # Nil
                          => /\ req'[w].id[1] \in Keys(recentPayloads')
                             /\ resp'[w].Payload =
                                    Some(LruValue(recentPayloads', req'[w].id[1]))]_vars

C20_Witness ==
    \E w \in Workers, v \in Workers :
        /\ Finished(w, "getPayload")
        /\ resp[w].Payload # Nil
        /\ req[w].id[1] \in Keys(recentPayloads)
        /\ Finished(v, "newPayload")
        /\ resp[v].Status = ExecutionValid

\* the RPC server is stopped and both servers are closed for good
ShutDown ==
    /\ rpcSrv = "stopped"
    /\ \A l \in Servers : inShutdown[l] /\ listener[l] = "closed"

\* C15: a Close call made while RunNode runs leads, in every interleaving
\* with the two ListenAndServe goroutines, to a state where the RPC server is
\* stopped and both listeners are closed; from then on this stays so, no
\* connection is accepted and no request starts being served.
C15_CloseShutsDown ==
    /\ ((runNodePc \in {"start", "select"} /\ \E c \in Closers : closePc[c] = "sending")
            ~> ShutDown)
    /\ [][ShutDown =>
            /\ ShutDown'
            /\ \A w \in Workers :
                  /\ conn'[w] = NoConn
                  /\ pc[w] = "idle" => pc'[w] = "idle"]_vars

C15_Witness ==
    /\ ShutDown
    /\ runNodePc = "returned"
    /\ \E c \in Closers : closePc[c] = "returned"
    /\ returned # {}

\* C16: while the connection a worker serves presents a token that is not
\* signed with the loaded secret, on either listener, the worker runs no
\* engine method and the counter, the cache and the chain do not change.
C16_UnauthorizedNeverDispatched ==
    [][\A w \in Workers :
          (conn[w] # NoConn /\ conn[w].token # jwtSecret)
             => /\ req'[w].op \in {"none", "rejected"}
                /\ backend' = backend]_vars

C16_Witness ==
    \E w \in Workers :
        /\ Finished(w, "rejected")
        /\ resp[w].Err = Unauthorized
        /\ conn[w].listener = "wsSrv"
        /\ conn[w].token = WrongSecret
        /\ payloadIdCounter = 1

IsPrefix(a, b) == Len(a) <= Len(b) /\ a = SubSeq(b, 1, Len(a))

\* C17: a listener is started, a connection accepted or a request served
\* only after the secret was loaded, the chain initialised and the backend
\* constructed, in this order and all with success; once one of them has
\* failed, startup is over and no listener is ever started.
C17_ServeOnlyAfterStartup ==
    /\ [](/\ IsPrefix(startup, StartupSteps)
          /\ ((\/ runNodePc # "notStarted"
                \/ \E l \in Servers : listener[l] # "none"
                \/ \E w \in Workers : conn[w] # NoConn \/ pc[w] # "idle")
                 => /\ startup = StartupSteps
                    /\ Len(jwtSecret) = SecretLen
                    /\ GenesisHash \in DOMAIN chain
                    /\ rpcSrv # "nil")
          /\ (runPc \in {"exited", "failed"}
                 => /\ runNodePc = "notStarted"
                    /\ \A l \in Servers : listener[l] = "none"
                    /\ \A w \in Workers : conn[w] = NoConn /\ pc[w] = "idle"))
    /\ [][(runPc \in {"exited", "failed"}) => runPc' = runPc]_vars

C17_Witness ==
    /\ \A l \in Servers : listener[l] = "serving"
    /\ \E w \in Workers : Finished(w, "getPayload")

\* the file holds the hex encoding of a 32-byte value and nothing else
IsHexSecret(file) ==
    /\ file.exists
    /\ Len(file.content) = 2 * SecretLen
    /\ \A i \in 1..Len(file.content) : file.content[i] < NonHexChar

\* C18 as stated: once the secret file has been read, startup goes on exactly
\* when the file is the hex encoding of a 32-byte value; every other content
\* ends startup.
C18_Original ==
    runPc \in {"makeMockChain", "exited"} => (runPc = "makeMockChain" <=> IsHexSecret(jwtFile))

\* C19 as stated: every Close call that waits to hand over its signal
\* returns (unless the process exits).
C19_Original ==
    \A c \in Closers :
        (closePc[c] = "sending") ~> (closePc[c] = "returned" \/ runPc = "exited")

====
